---- MODULE Spec2Model ----
(***************************************************************************)
(* A model of nightmare's test core (src/nightmare/case.py):               *)
(*   Command  - runs a shell command in a worker thread, the caller joins  *)
(*              with a timeout and kills the process on expiry;            *)
(*   Test     - runs one or several commands and classifies the result by  *)
(*              checking return code, stdout and stderr.                   *)
(* Python values are tagged records: [t |-> "None"], [t |-> "int", v |-> n],*)
(* [t |-> "str", v |-> s], [t |-> "bytes", v |-> s], [t |-> "list", v |-> q]*)
(* and [t |-> "set", v |-> S].  Text is a TLA+ string, character by         *)
(* character.  Of Command.execute the POSIX branch is modelled             *)
(* (sys.platform is not "win32").                                          *)
(***************************************************************************)
EXTENDS Integers, Sequences, FiniteSets, TLC

(***************************************************************************)
(* Bounds of the model.                                                    *)
(***************************************************************************)
\* number of Test.run() calls made on the Test
MaxRuns == 2
\* longest command list of a Test
MaxCmds == 2
\* most direct children the shell of a command starts
MaxChildren == 2
\* most children of a TestGroup
MaxTests == 2
\* longest list of expectations handed to Test.check
MaxLen == 2
\* the most rows of a TestGrid
MaxRows == 12

(***************************************************************************)
(* Python values.                                                          *)
(***************************************************************************)
None == [t |-> "None"]
PyInt(n) == [t |-> "int", v |-> n]
PyStr(s) == [t |-> "str", v |-> s]
PyBytes(s) == [t |-> "bytes", v |-> s]
PyList(q) == [t |-> "list", v |-> q]
PySet(S) == [t |-> "set", v |-> S]
\* Stringifier(expectation), and an instance of the class Expectation
Stringifier(s) == [t |-> "Stringifier", v |-> s]
Expectation == [t |-> "Expectation"]
\* a value of a type that Test.check has no rule for
PyFloat(s) == [t |-> "float", v |-> s]

\* s.startswith(prefix)
StartsWith(s, prefix) ==
    Len(s) >= Len(prefix) /\ SubSeq(s, 1, Len(prefix)) = prefix

\* sub in s, for two texts
Contains(s, sub) ==
    \E i \in 1..(Len(s) - Len(sub) + 1) : SubSeq(s, i, i + Len(sub) - 1) = sub

\* s.replace(old, new), leftmost matches first, old not empty
RECURSIVE Replace(_, _, _)
Replace(s, old, new) ==
    IF Len(s) < Len(old) THEN s
    ELSE IF SubSeq(s, 1, Len(old)) = old
         THEN new \o Replace(SubSeq(s, Len(old) + 1, Len(s)), old, new)
         ELSE SubSeq(s, 1, 1) \o Replace(SubSeq(s, 2, Len(s)), old, new)

\* the characters str.rstrip() and str.strip() remove
Whitespace == {" ", "\n", "\t", "\r", "\f"}

\* s.rstrip()
RECURSIVE RStrip(_)
RStrip(s) ==
    IF Len(s) > 0 /\ SubSeq(s, Len(s), Len(s)) \in Whitespace
    THEN RStrip(SubSeq(s, 1, Len(s) - 1))
    ELSE s

\* s.strip()
RECURSIVE LStrip(_)
LStrip(s) ==
    IF Len(s) > 0 /\ SubSeq(s, 1, 1) \in Whitespace
    THEN LStrip(SubSeq(s, 2, Len(s)))
    ELSE s

Strip(s) == LStrip(RStrip(s))

\* the index of the first line break of s, 0 when it has none
RECURSIVE FirstBreak(_, _)
FirstBreak(s, i) ==
    IF i > Len(s) THEN 0
    ELSE IF SubSeq(s, i, i) \in {"\n", "\r", "\f"} THEN i
    ELSE FirstBreak(s, i + 1)

\* s.splitlines(): the lines without their line breaks; "\r\n" is one break
\* and a final line break opens no empty last line
RECURSIVE SplitLines(_)
SplitLines(s) ==
    IF Len(s) = 0 THEN << >>
    ELSE LET b == FirstBreak(s, 1) IN
         IF b = 0 THEN << s >>
         ELSE LET e == IF SubSeq(s, b, b) = "\r" /\ b < Len(s)
                          /\ SubSeq(s, b + 1, b + 1) = "\n"
                       THEN b + 1 ELSE b
              IN << SubSeq(s, 1, b - 1) >> \o SplitLines(SubSeq(s, e + 1, Len(s)))

\* str(out) for an int, a str, a bytes value and None
ToStr(out) ==
    CASE out.t = "str" -> out.v
      [] out.t = "int" -> ToString(out.v)
      [] out.t = "bytes" -> "b'" \o Replace(out.v, "\n", "\\n") \o "'"
      [] OTHER -> "None"

(***************************************************************************)
(* TestState (the enumeration), as the names of its members.               *)
(***************************************************************************)
TestState ==
    {"Success", "Fail", "Error", "Assertion", "SegFault", "InfoOnly",
     "Timeout", "Waiting", "Disabled", "Clean", "BadWord"}

(***************************************************************************)
(* The Test under consideration.  Its configuration is set by the          *)
(* constructor and by attribute assignment before the first run.           *)
(***************************************************************************)
VARIABLES
    name,           \* Test.name
    cmd,            \* Test.cmd: None, a str or a list of command lines
    DUT,            \* Test.DUT: None or the path of the device under test
    binary,         \* Test.binary
    expectRetCode,  \* Test.expectRetCode
    expectStdout,   \* Test.expectStdout
    expectStderr,   \* Test.expectStderr
    arg_state,      \* the argument state of Test.__init__
    g_cls,          \* the class the group is made with: "TestGroup",
                    \* "TestAll" or "TestAny"
    state,          \* Test.state
    output,         \* Test.output
    error,          \* Test.error
    retCode         \* Test.retCode

VARIABLES
    pc,             \* where the thread that called Test.run() is
    idx,            \* the position in the command list of the current command
    runs,           \* calls of Test.run() so far
    runRet,         \* what the last Test.run() returned, "none" before its
                    \* return
    exc,            \* the exception that left Test.run(), "none" if none did
    executed        \* calls of Command.execute so far

VARIABLES
    c_out,          \* Command.out of the current Command
    c_err,          \* Command.err
    c_ret,          \* Command.ret
    c_binary,       \* Command.binary
    proc,           \* Command.proc: "None" or "Popen"
    cmdRet,         \* what Command.execute returned, "none" while it runs
    wpc             \* where the worker thread (Command.commandFunc) is

VARIABLES
    shell,          \* the shell process: "none", "alive", "exited" (by
                    \* itself) or "killed" (by SIGTERM)
    kids,           \* living direct children of the living shell
    desc,           \* living deeper or re-parented descendants
    returncode,     \* Popen.returncode as the worker has it, None before
    timedOut        \* thread.join(timeout) returned because the timeout elapsed

VARIABLES
    g_pc,           \* where TestGroup.run() is: "idle" between two runs, "call"
                    \* before t.run(), "run" during it, "finish" after the
                    \* loop; "nogroup" when the Test belongs to no group
    g_n,            \* len(TestGroup.tests)
    g_pred,         \* TestGroup.predicate: "all" or "any"
    g_i,            \* the position in TestGroup.tests of the current child
    g_results,      \* results of TestGroup.run
    g_log,          \* the lines log_test has written since TestGroup.run
                    \* started, as <<nr, state>>
    g_state,        \* TestGroup.state
    g_ret           \* what the last TestGroup.run() returned, "none" before

VARIABLES
    o_pc,           \* where the run of the outer group stands: "noouter" without
                    \* an outer group, "idle", "call", "run", "finish"
    o_nodes,        \* the children of the outer group in the order they were
                    \* given: "T" is the Test, "G" the inner group
    o_pred,         \* its predicate, "all" or "any"
    o_i,            \* the position (from 1) of the child its loop is at
    o_results,      \* results of its TestGroup.run
    o_log,          \* what its log_test has written
    o_state,        \* its TestGroup.state
    o_ret,          \* what its run returned, "none" before
    o_trace         \* the calls of Test.run in their order, each with the
                    \* positions in the outer and in the inner group

VARIABLES
    ck_exp,         \* the expectation of a call of Test.check, "none" without
    ck_out,         \* its output
    ck_stream,      \* its stream argument
    ck_order,       \* the order in which Python iterates over a set expectation
    ck_res,         \* what the call returned, "none" before its return
    ck_log,         \* the diffs the call has handed to logger.log
    diff,           \* Test.diff
    ignoreEmptyLines \* Test.ignoreEmptyLines

VARIABLES
    rows,           \* len(TestGrid._rows)
    destroyed,      \* how many of the rows clear() has destroyed; they are
                    \* the first rows of TestGrid._rows
    visible,        \* TestGrid._visible: << lower, upper >>
    packed,         \* the indices of the rows that are packed (displayed)
    indexed,        \* the indices i of self._rows[i] in the last scroll()
    gridExc         \* the exception the last handler of the grid raised

config == << name, cmd, DUT, binary, expectRetCode, expectStdout, expectStderr,
            arg_state, g_cls >>
fields == << state, output, error, retCode >>
caller == << pc, idx, runs, runRet, exc, executed >>
command == << c_out, c_err, c_ret, c_binary, proc, cmdRet, wpc >>
procs == << shell, kids, desc, returncode, timedOut >>
outer == << o_pc, o_nodes, o_pred, o_i, o_results, o_log, o_state, o_ret,
           o_trace >>
group == << g_pc, g_n, g_pred, g_i, g_results, g_log, g_state, g_ret, outer >>
ck == << ck_exp, ck_out, ck_stream, ck_order, ck_res, ck_log, diff,
        ignoreEmptyLines >>
grid == << rows, destroyed, visible, packed, indexed, gridExc >>
vars == << config, fields, caller, command, procs, group, ck, grid >>

\* Test.linesep (os.linesep of a POSIX system)
linesep == "\n"

(***************************************************************************)
(* Test.lineComparison: difflib.unified_diff yields no line for equal      *)
(* sequences, and otherwise a "---" / "+++" header, so same is the         *)
(* equality of the two line lists after the optional removal of "".        *)
(***************************************************************************)
\* lines 380-384: the two lists after the removal of their empty lines
DropEmpty(q) ==
    IF ignoreEmptyLines THEN SelectSeq(q, LAMBDA l : l # "") ELSE q

lineComparison(expLines, outLines) == DropEmpty(expLines) = DropEmpty(outLines)

\* lines 385-397: what lineComparison hands to logger.log, the lines of one
\* unified diff as one entry, with the stream name of its header
lineComparisonLog(expLines, outLines, stream) ==
    IF diff /\ ~lineComparison(expLines, outLines)
    THEN << [stream |-> stream, exp |-> DropEmpty(expLines),
             out |-> DropEmpty(outLines)] >>
    ELSE << >>

\* Stringifier.__call__ (lines 270-271): the lines of the stripped
\* expectation and of the stripped output
Stringify(exp, out) ==
    << SplitLines(Strip(exp.v)), SplitLines(Strip(out.v)) >>

\* eval(exp) of a str expectation that starts with "lambda", called with
\* the output (lines 433-434)
EvalLambda(src, out) ==
    CASE src = "lambda x: True" -> TRUE
      [] src = "lambda x: False" -> FALSE

(***************************************************************************)
(* Test.check with Test.checkList and Test.checkSet, for the expectation   *)
(* shapes None, Stringifier, Expectation, int, list, set, bytes and str     *)
(* (a lambda source or a plain text), in the order of the isinstance       *)
(* chain.  The two loops are walked element by element with their early    *)
(* returns.                                                                *)
(***************************************************************************)
RECURSIVE check(_, _)
RECURSIVE checkList(_, _)
RECURSIVE loopSet(_, _)
RECURSIVE SetToSeq(_)

\* the elements of a set in some fixed order
SetToSeq(S) ==
    IF S = {} THEN << >>
    ELSE LET e == CHOOSE x \in S : TRUE IN << e >> \o SetToSeq(S \ {e})

\* `for exp in st`: the order in which Python iterates over a set.  It
\* follows the hashes of the elements, which ck_order ranks; elements that
\* ck_order does not rank follow in a fixed order.
Iterate(st) ==
    SelectSeq(ck_order, LAMBDA e : e \in st)
        \o SetToSeq(st \ {ck_order[i] : i \in 1..Len(ck_order)})

\* a checkList that looks at the first element only
checkListFirst(lst, out) ==
    IF lst = << >> THEN TRUE ELSE check(Head(lst), out)

\* lines 449-452: the loop of checkList
checkList(lst, out) ==
    IF lst = << >> THEN TRUE
    ELSE IF ~check(Head(lst), out) THEN FALSE
    ELSE checkList(Tail(lst), out)

\* lines 459-462 for the elements still to be visited, in iteration order
loopSet(q, out) ==
    IF q = << >> THEN FALSE
    ELSE IF check(Head(q), out) THEN TRUE
    ELSE loopSet(Tail(q), out)

\* a checkSet that looks at the first element of the iteration only
checkSetFirst(st, out) ==
    IF st = {} THEN FALSE ELSE check(Head(Iterate(st)), out)

\* lines 459-462: the loop of checkSet
checkSet(st, out) == loopSet(Iterate(st), out)

\* `exp(out)` for a Stringifier as the condition of an if: the pair of line
\* lists its call returns is not empty, so it counts as true
callStringifier(exp, out) == Stringify(exp, out) # << >>

\* lines 419-420: self.lineComparison(*(exp(out)), stream=stream)
checkStringifier(exp, out) ==
    lineComparison(Stringify(exp, out)[1], Stringify(exp, out)[2])

\* lines 439-441: the lines of a plain str expectation and of the output
expLines(exp) == SplitLines(Replace(exp.v, "$n", linesep))
outLines(out) == SplitLines(RStrip(ToStr(out)))

\* a check without the rule of lines 417-418
checkNoIdentity(exp, out) ==
    CASE exp.t = "Stringifier" -> checkStringifier(exp, out)
      [] exp.t = "Expectation" -> TRUE
      [] exp.t = "int" /\ out.t = "int" -> exp.v = out.v
      [] exp.t = "list" -> checkList(exp.v, out)
      [] exp.t = "set" -> checkSet(exp.v, out)
      [] exp.t = "bytes" -> out.t = "bytes" /\ exp.v = out.v
      [] exp.t = "str" ->
            IF StartsWith(exp.v, "lambda") THEN EvalLambda(exp.v, out)
            ELSE lineComparison(expLines(exp), outLines(out))
      [] OTHER -> FALSE

check(exp, out) ==
    CASE exp.t = "None" -> TRUE
      [] exp.t = "Stringifier" -> checkStringifier(exp, out)
      [] exp.t = "Expectation" -> TRUE
      [] exp.t = "int" /\ out.t = "int" -> exp.v = out.v
      [] exp.t = "list" -> checkList(exp.v, out)
      [] exp.t = "set" -> checkSet(exp.v, out)
      [] exp.t = "bytes" -> out.t = "bytes" /\ exp.v = out.v
      [] exp.t = "str" ->
            IF StartsWith(exp.v, "lambda") THEN EvalLambda(exp.v, out)
            ELSE lineComparison(expLines(exp), outLines(out))
      [] OTHER -> FALSE

(***************************************************************************)
(* Test.check of src/case.py, the other copy of the module: the rule for   *)
(* callables (lines 278-279) stands before the rule for Stringifiers       *)
(* (lines 280-281), and a Stringifier is callable.  The other rules are    *)
(* those of check, in the same order.                                      *)
(***************************************************************************)
checkSrcCase(exp, out) ==
    IF exp.t = "None" THEN TRUE
    ELSE IF exp.t = "Stringifier" THEN callStringifier(exp, out)
    ELSE IF exp.t = "Expectation" THEN TRUE
    ELSE check(exp, out)

(***************************************************************************)
(* What a call of Test.check hands to logger.log: the diffs of the line    *)
(* comparisons it makes, in the order of the calls.  checkList and         *)
(* checkSet pass no stream, so the diffs of their elements carry the       *)
(* default "returnCode".                                                   *)
(***************************************************************************)
RECURSIVE checkLog(_, _, _)
RECURSIVE checkListLog(_, _)
RECURSIVE loopSetLog(_, _)

\* lines 449-452: the elements up to the first that does not match
checkListLog(lst, out) ==
    IF lst = << >> THEN << >>
    ELSE checkLog(Head(lst), out, "returnCode")
           \o (IF ~check(Head(lst), out) THEN << >>
               ELSE checkListLog(Tail(lst), out))

\* lines 459-462: the elements up to the first that matches
loopSetLog(q, out) ==
    IF q = << >> THEN << >>
    ELSE checkLog(Head(q), out, "returnCode")
           \o (IF check(Head(q), out) THEN << >>
               ELSE loopSetLog(Tail(q), out))

checkLog(exp, out, stream) ==
    CASE exp.t = "Stringifier" ->
            lineComparisonLog(Stringify(exp, out)[1], Stringify(exp, out)[2],
                              stream)
      [] exp.t = "list" -> checkListLog(exp.v, out)
      [] exp.t = "set" -> loopSetLog(Iterate(exp.v), out)
      [] exp.t = "str" /\ ~StartsWith(exp.v, "lambda") ->
            lineComparisonLog(expLines(exp), outLines(out), stream)
      [] OTHER -> << >>

(***************************************************************************)
(* The inputs: command lines, expectations and what a command can print    *)
(* and return.                                                             *)
(***************************************************************************)
CmdLines == {"echo hello", "$DUT -x"}

RECURSIVE SeqsUpTo(_, _)
SeqsUpTo(S, n) ==
    IF n = 0 THEN {<< >>}
    ELSE LET shorter == SeqsUpTo(S, n - 1)
         IN shorter \cup {Append(q, x) : q \in {r \in shorter : Len(r) = n - 1}, x \in S}

CmdValues ==
    {None} \cup {PyStr(c) : c \in CmdLines}
           \cup {PyList(q) : q \in SeqsUpTo(CmdLines, MaxCmds)}

\* <<expectRetCode, expectStdout, expectStderr>>: the return code 0 or -11,
\* "hello" on stdout as text or as bytes, and on stderr nothing or the
\* message of an expected crash
Expectations ==
    { << PySet({PyInt(0), PyInt(-11)}),
         PyList(<< None, PySet({PyStr("hello"), PyBytes("hello\n")}) >>),
         PySet({PyStr(""), PyBytes(""), PyStr("assertion: Segmentation Fault")}) >> }

\* what a command that ends by itself can have written and returned
Outcomes ==
    { [out |-> "hello\n", err |-> "", ret |-> 0],
      [out |-> "hello\n", err |-> "", ret |-> 1],
      [out |-> "hello\n", err |-> "", ret |-> -6],
      [out |-> "hello\n", err |-> "Assertion failed", ret |-> -6],
      [out |-> "hello\n", err |-> "coredump", ret |-> 0],
      [out |-> "hello\n", err |-> "assertion: Segmentation Fault", ret |-> -11] }

\* what a shell ended by SIGTERM leaves
Terminated == [out |-> "", err |-> "", ret |-> -15]

\* what Popen.communicate returns for a text: str with universal_newlines,
\* bytes without
Capture(bin, text) == IF bin THEN PyBytes(text) ELSE PyStr(text)

(***************************************************************************)
(* Test.__init__ and Command.__init__                                      *)
(***************************************************************************)
\* the Test as its constructor leaves it when it is called without the
\* argument state (whose default is Waiting), and no Command yet
Constructed ==
    /\ arg_state = "Waiting"
    /\ state = "Waiting"
    /\ output = PyStr("")
    /\ error = PyStr("")
    /\ retCode = PyInt(0)
    /\ pc = "idle" /\ idx = 0 /\ runs = 0 /\ runRet = "none" /\ exc = "none"
    /\ executed = 0
    /\ c_out = PyStr("") /\ c_err = PyStr("") /\ c_ret = PyInt(0)
    /\ c_binary = FALSE /\ proc = "None" /\ cmdRet = "none" /\ wpc = "none"
    /\ shell = "none" /\ kids = 0 /\ desc = 0 /\ returncode = None
    /\ timedOut = FALSE

\* the Test belongs to no TestGroup
NoGroup ==
    /\ g_cls = "TestGroup"
    /\ g_pc = "nogroup" /\ g_n = 0 /\ g_pred = "all" /\ g_i = 0
    /\ g_results = << >> /\ g_log = << >>
    /\ g_state = "Waiting" /\ g_ret = "none"

\* the group, if any, is a child of no other group
NoOuter ==
    /\ o_pc = "noouter" /\ o_nodes = << >> /\ o_pred = "all" /\ o_i = 0
    /\ o_results = << >> /\ o_log = << >>
    /\ o_state = "Waiting" /\ o_ret = "none" /\ o_trace = << >>

\* no call of Test.check from outside Test.runCmd
NoCheck ==
    /\ ck_exp = "none" /\ ck_out = "none" /\ ck_stream = "none"
    /\ ck_order = << >> /\ ck_res = "none" /\ ck_log = << >>

\* TestGrid.__init__: no rows, and rows 0 to 9 visible
NoGrid ==
    /\ rows = 0 /\ destroyed = 0
    /\ visible = << 0, 9 >>
    /\ packed = {} /\ indexed = {}
    /\ gridExc = "none"

\* lines 361 and 367: the flags as the constructor sets them (diff=None)
Flags ==
    /\ diff = FALSE
    /\ ignoreEmptyLines = FALSE

\* a Test that is run by its owner
Init ==
    /\ name \in {"echo", "Badword"}
    /\ cmd \in CmdValues
    /\ DUT \in {None, PyStr("./dut")}
    /\ binary \in BOOLEAN
    /\ \E e \in Expectations :
          /\ expectRetCode = e[1]
          /\ expectStdout = e[2]
          /\ expectStderr = e[3]
    /\ Constructed
    /\ NoGroup
    /\ NoOuter
    /\ NoCheck
    /\ Flags
    /\ NoGrid

\* the command lines Test.run iterates over
CmdList == IF cmd.t = "list" THEN cmd.v ELSE << cmd.v >>

\* TestRow.clickCheck of the GUI, between two runs: the check button
\* disables the Test, and sets a disabled one to Waiting
clickCheck ==
    /\ pc = "idle"
    /\ runs < MaxRuns
    /\ g_pc \in {"nogroup", "idle", "call"}
    /\ ~(o_pc = "run" /\ o_nodes[o_i] = "T")
    /\ state' = IF state = "Disabled" THEN "Waiting" ELSE "Disabled"
    /\ UNCHANGED << grid, ck, group, config, output, error, retCode, caller, command, procs >>

\* the owner of the Test marks it InfoOnly between two runs (Test.state is
\* assigned from outside; the constructor sets Waiting)
SetInfoOnly ==
    /\ pc = "idle"
    /\ runs < MaxRuns
    /\ g_pc \in {"nogroup", "idle", "call"}
    /\ ~(o_pc = "run" /\ o_nodes[o_i] = "T")
    /\ state \notin {"Disabled", "InfoOnly"}
    /\ state' = "InfoOnly"
    /\ UNCHANGED << grid, ck, group, config, output, error, retCode, caller, command, procs >>

(***************************************************************************)
(* Test.run                                                                *)
(***************************************************************************)
\* the entry of Test.run: one more call, with the state it found; the
\* call is the owner's, or that of TestGroup.run (line 692)
Called ==
    /\ pc = "idle"
    /\ runs < MaxRuns
    /\ runs' = runs + 1
    /\ IF g_pc = "nogroup"
       THEN UNCHANGED group
       ELSE IF g_pc = "call"
       THEN /\ g_pc' = "run"
            /\ o_trace' = IF o_pc = "noouter" THEN o_trace
                          ELSE Append(o_trace, << o_i, g_i >>)
            /\ UNCHANGED << g_n, g_pred, g_i, g_results, g_log, g_state, g_ret,
                            o_pc, o_nodes, o_pred, o_i, o_results, o_log,
                            o_state, o_ret >>
       ELSE /\ o_pc = "call"
            /\ o_nodes[o_i] = "T"
            /\ o_pc' = "run"
            /\ o_trace' = Append(o_trace, << o_i, 0 >>)
            /\ UNCHANGED << g_pc, g_n, g_pred, g_i, g_results, g_log, g_state,
                            g_ret, o_nodes, o_pred, o_i, o_results, o_log,
                            o_state, o_ret >>

\* a run of a Disabled Test that clears what the last run stored
RunDisabledClearing ==
    /\ Called
    /\ state = "Disabled"
    /\ runRet' = "Disabled"
    /\ output' = PyStr("") /\ error' = PyStr("") /\ retCode' = PyInt(0)
    /\ UNCHANGED << grid, ck, config, state, pc, idx, exc, executed, command, procs >>

\* lines 527-528: a Disabled Test returns Disabled at once
RunDisabled ==
    /\ Called
    /\ state = "Disabled"
    /\ runRet' = "Disabled"
    /\ UNCHANGED << grid, ck, config, fields, pc, idx, exc, executed, command, procs >>

\* a run of an InfoOnly Test that sets the Test back to Waiting
RunInfoOnlyResetting ==
    /\ Called
    /\ state = "InfoOnly"
    /\ runRet' = "InfoOnly"
    /\ state' = "Waiting"
    /\ UNCHANGED << grid, ck, config, output, error, retCode, pc, idx, exc, executed,
                    command, procs >>

\* lines 529-534: an InfoOnly Test prints its name and returns InfoOnly
RunInfoOnly ==
    /\ Called
    /\ state = "InfoOnly"
    /\ runRet' = "InfoOnly"
    /\ UNCHANGED << grid, ck, config, fields, pc, idx, exc, executed, command, procs >>

\* the "Badword" mode: the command is the list of patterns, the files
\* beside the DUT are searched; what they hold is the environment's choice
RunBadword ==
    /\ Called
    /\ state \notin {"Disabled", "InfoOnly"}
    /\ name = "Badword"
    /\ IF cmd = None \/ DUT = None
       THEN /\ pc' = "raised"
            /\ exc' = "TypeError"
            /\ runRet' = "none"
            /\ UNCHANGED state
       ELSE /\ state' \in {"Clean", "BadWord"}
            /\ runRet' = state'
            /\ UNCHANGED << pc, exc >>
    /\ UNCHANGED << grid, ck, config, output, error, retCode, idx, executed, command, procs >>

RunNoCmd ==
    /\ Called
    /\ state \notin {"Disabled", "InfoOnly"}
    /\ name # "Badword"
    /\ cmd = None
    /\ state' = "Error"
    /\ runRet' = "Error"
    /\ UNCHANGED << grid, ck, config, output, error, retCode, pc, idx, exc, executed, command, procs >>

\* a str command or a list: the loop over the command lines begins; over an
\* empty list it ends at once
RunStart ==
    /\ Called
    /\ state \notin {"Disabled", "InfoOnly"}
    /\ name # "Badword"
    /\ cmd # None
    /\ IF Len(CmdList) = 0
       THEN /\ runRet' = state
            /\ UNCHANGED << pc, idx >>
       ELSE /\ pc' = "runCmd"
            /\ idx' = 1
            /\ runRet' = "none"
    /\ UNCHANGED << grid, ck, config, fields, exc, executed, command, procs >>

\* Test.runCmd has ended with Test.state = s: the next command line, or the
\* return of Test.run
Continue(s) ==
    IF idx < Len(CmdList)
    THEN /\ pc' = "runCmd"
         /\ idx' = idx + 1
         /\ UNCHANGED runRet
    ELSE /\ pc' = "idle"
         /\ idx' = 0
         /\ runRet' = s

(***************************************************************************)
(* Test.runCmd, up to the start of the worker thread in Command.execute    *)
(***************************************************************************)
\* a process of the current Command lives
Alive == shell = "alive" \/ kids > 0 \/ desc > 0

\* a runCmd that meets $DUT without a DUT after it has cleared the outputs
RunCmdNoDUTClearing ==
    /\ pc = "runCmd"
    /\ Contains(CmdList[idx], "$DUT")
    /\ DUT = None
    /\ state' = "Error"
    /\ output' = PyStr("") /\ error' = PyStr("") /\ retCode' = PyInt(0)
    /\ Continue("Error")
    /\ UNCHANGED << grid, ck, group, config, runs, exc, executed, command, procs >>

\* lines 485-488: "$DUT" in command and self.DUT is None: Error, and nothing
\* is executed
RunCmdNoDUT ==
    /\ pc = "runCmd"
    /\ Contains(CmdList[idx], "$DUT")
    /\ DUT = None
    /\ state' = "Error"
    /\ Continue("Error")
    /\ UNCHANGED << grid, ck, group, config, output, error, retCode, runs, exc,
                    executed, command, procs >>

\* Command(cmd, binary) and execute up to thread.start(): a fresh Command;
\* binary is passed on only where the command line holds $DUT
RunCmdExecute ==
    /\ pc = "runCmd"
    /\ ~(Contains(CmdList[idx], "$DUT") /\ DUT = None)
    /\ c_out' = PyStr("") /\ c_err' = PyStr("") /\ c_ret' = PyInt(0)
    /\ c_binary' = IF Contains(CmdList[idx], "$DUT") THEN binary ELSE FALSE
    /\ proc' = "None"
    /\ cmdRet' = "none"
    /\ wpc' = "spawn"
    /\ pc' = "join"
    /\ executed' = executed + 1
    /\ shell' = "none" /\ kids' = 0 /\ desc' = 0 /\ returncode' = None
    /\ timedOut' = FALSE
    /\ UNCHANGED << grid, ck, group, config, fields, idx, runs, runRet, exc >>

(***************************************************************************)
(* Command.commandFunc, the worker thread                                  *)
(***************************************************************************)
\* line 123, the call: subprocess.Popen succeeds, the shell runs, with its
\* children and theirs
Popen ==
    /\ wpc = "spawn"
    /\ shell' = "alive"
    /\ \E k \in 0..MaxChildren, d \in 0..1 :
          /\ (k = 0 => d = 0)
          /\ kids' = k
          /\ desc' = d
    /\ wpc' = "store"
    /\ UNCHANGED << grid, ck, group, config, fields, caller, c_out, c_err, c_ret, c_binary,
                    proc, cmdRet, returncode, timedOut >>

\* line 123, the assignment: self.proc = <the Popen object>
StoreProc ==
    /\ wpc = "store"
    /\ proc' = "Popen"
    /\ wpc' = "communicate"
    /\ UNCHANGED << grid, ck, group, config, fields, caller, c_out, c_err, c_ret, c_binary,
                    cmdRet, procs >>

\* subprocess.Popen raises: the thread ends, self.proc stays None
PopenFails ==
    /\ wpc = "spawn"
    /\ wpc' = "failed"
    /\ UNCHANGED << grid, ck, group, config, fields, caller, c_out, c_err, c_ret, c_binary,
                    proc, cmdRet, procs >>

\* Test.runCmd can still read the current Command: Command.execute has not
\* entered its kill path (which ends in Timeout or an exception) and
\* Test.runCmd has not ended.  Afterwards the local _cmd is out of reach,
\* and what the worker stores in it is no longer part of the state
InRunCmd ==
    pc \in {"join", "poll145", "read495", "read497"}

\* line 131: proc.communicate() returns when both pipes are at their end (no
\* process that holds them is left) and the shell is reaped; what the
\* command wrote and returned shows here
Communicate ==
    /\ wpc = "communicate"
    /\ ~Alive
    /\ IF InRunCmd
       THEN \E o \in IF shell = "killed" THEN {Terminated} ELSE Outcomes :
               /\ c_out' = Capture(c_binary, o.out)
               /\ c_err' = Capture(c_binary, o.err)
               /\ returncode' = PyInt(o.ret)
       ELSE UNCHANGED << c_out, c_err, returncode >>
    /\ wpc' = "wait"
    /\ UNCHANGED << grid, ck, group, config, fields, caller, c_ret, c_binary, proc, cmdRet,
                    shell, kids, desc, timedOut >>

\* line 132: self.ret = self.proc.wait()
Wait ==
    /\ wpc = "wait"
    /\ c_ret' = IF InRunCmd THEN returncode ELSE c_ret
    /\ wpc' = "done"
    /\ UNCHANGED << grid, ck, group, config, fields, caller, c_out, c_err, c_binary, proc,
                    cmdRet, procs >>

(***************************************************************************)
(* The processes of the command.  A shell ends by itself once its children *)
(* have ended; a killed child leaves its own children alive.               *)
(***************************************************************************)
ShellExits ==
    /\ shell = "alive"
    /\ kids = 0
    /\ shell' = "exited"
    /\ UNCHANGED << grid, ck, group, config, fields, caller, command, kids, desc, returncode,
                    timedOut >>

ChildExits ==
    /\ kids > 0
    /\ kids' = kids - 1
    /\ UNCHANGED << grid, ck, group, config, fields, caller, command, shell, desc, returncode,
                    timedOut >>

DescendantExits ==
    /\ desc > 0
    /\ desc' = desc - 1
    /\ UNCHANGED << grid, ck, group, config, fields, caller, command, shell, kids, returncode,
                    timedOut >>

(***************************************************************************)
(* Command.execute, the calling thread, from thread.join(timeout) on       *)
(***************************************************************************)
\* an exception leaves Command.execute, Test.runCmd and Test.run
Raise(e) ==
    /\ pc' = "raised"
    /\ exc' = e
    /\ UNCHANGED << idx, runs, runRet, executed >>

\* line 145, left operand, after join has returned: self.proc is not None
ProcCheck ==
    IF proc = "None"
    THEN /\ cmdRet' = "Success"
         /\ pc' = "read495"
    ELSE /\ pc' = "poll145"
         /\ UNCHANGED cmdRet

\* thread.join(timeout) returns because the worker thread has ended
Join ==
    /\ pc = "join"
    /\ wpc \in {"done", "failed"}
    /\ timedOut' = FALSE
    /\ ProcCheck
    /\ UNCHANGED << grid, ck, group, config, fields, idx, runs, runRet, exc, executed,
                    c_out, c_err, c_ret, c_binary, proc, wpc,
                    shell, kids, desc, returncode >>

\* thread.join(timeout) returns because the timeout has elapsed
JoinTimeout ==
    /\ pc = "join"
    /\ wpc \notin {"done", "failed"}
    /\ timedOut' = TRUE
    /\ ProcCheck
    /\ UNCHANGED << grid, ck, group, config, fields, idx, runs, runRet, exc, executed,
                    c_out, c_err, c_ret, c_binary, proc, wpc,
                    shell, kids, desc, returncode >>

\* line 145, right operand: self.proc.poll() is None
Poll145 ==
    /\ pc = "poll145"
    /\ IF shell = "alive"
       THEN /\ pc' = "pgrep"
            /\ UNCHANGED cmdRet
       ELSE /\ cmdRet' = "Success"
            /\ pc' = "read495"
    /\ UNCHANGED << grid, ck, group, config, fields, idx, runs, runRet, exc, executed,
                    c_out, c_err, c_ret, c_binary, proc, wpc, procs >>

\* lines 149-151: int(check_output("pgrep -P pid").strip()): pgrep ends with
\* status 1 when it lists no process (CalledProcessError), and int() takes
\* one number only (ValueError)
Pgrep ==
    /\ pc = "pgrep"
    /\ LET n == IF shell = "alive" THEN kids ELSE 0 IN
       CASE n = 1 -> pc' = "kill" /\ UNCHANGED << idx, runs, runRet, exc, executed >>
         [] n = 0 -> Raise("CalledProcessError")
         [] OTHER -> Raise("ValueError")
    /\ UNCHANGED << grid, ck, group, config, fields, command, procs >>

\* line 152: os.kill(childProc, signal.SIGKILL); the child's own children
\* are not signalled.  A child that has ended is gone once the shell has
\* reaped it (ProcessLookupError), and takes the signal silently before
Kill ==
    /\ pc = "kill"
    /\ IF kids > 0
       THEN /\ kids' = kids - 1
            /\ pc' = "poll153"
            /\ UNCHANGED << idx, runs, runRet, exc, executed >>
       ELSE /\ \/ Raise("ProcessLookupError")
               \/ /\ pc' = "poll153"
                  /\ UNCHANGED << idx, runs, runRet, exc, executed >>
            /\ UNCHANGED kids
    /\ UNCHANGED << grid, ck, group, config, fields, command, shell, desc, returncode, timedOut >>

\* lines 156 and 521, and the loop of Test.run: execute returns Timeout
ReturnTimeout ==
    /\ cmdRet' = "Timeout"
    /\ state' = "Timeout"
    /\ Continue("Timeout")
    /\ UNCHANGED << exc, runs, executed >>

\* line 153: self.proc.poll() is None
Poll153 ==
    /\ pc = "poll153"
    /\ IF shell = "alive"
       THEN /\ pc' = "term"
            /\ UNCHANGED << idx, runs, runRet, exc, executed, cmdRet, state >>
       ELSE ReturnTimeout
    /\ UNCHANGED << grid, ck, group, config, output, error, retCode, c_out, c_err, c_ret,
                    c_binary, proc, wpc, procs >>

\* a Timeout whose runCmd reads the streams of the Command all the same
TermReading ==
    /\ pc = "term"
    /\ CASE shell = "alive" ->
              /\ shell' \in {"killed", "alive"}
              /\ ReturnTimeout
         [] shell # "alive" /\ wpc \in {"wait", "done"} ->
              /\ Raise("ProcessLookupError")
              /\ UNCHANGED << shell, cmdRet, state >>
         [] OTHER ->
              /\ ReturnTimeout
              /\ UNCHANGED shell
    /\ output' = c_out /\ error' = c_err /\ retCode' = c_ret
    /\ UNCHANGED << grid, ck, group, config, c_out, c_err, c_ret,
                    c_binary, proc, wpc, kids, desc, returncode, timedOut >>

\* line 154: os.kill(self.proc.pid, signal.SIGTERM).  A living shell ends,
\* or handles the signal and lives on; a shell that has ended is still a
\* process until the worker's communicate() has reaped it
Term ==
    /\ pc = "term"
    /\ CASE shell = "alive" ->
              /\ shell' \in {"killed", "alive"}
              /\ ReturnTimeout
         [] shell # "alive" /\ wpc \in {"wait", "done"} ->
              /\ Raise("ProcessLookupError")
              /\ UNCHANGED << shell, cmdRet, state >>
         [] OTHER ->
              /\ ReturnTimeout
              /\ UNCHANGED shell
    /\ UNCHANGED << grid, ck, group, config, output, error, retCode, c_out, c_err, c_ret,
                    c_binary, proc, wpc, kids, desc, returncode, timedOut >>

(***************************************************************************)
(* Test.runCmd after Command.execute has returned Success                  *)
(***************************************************************************)
\* lines 495-496: self.output = _cmd.out; self.error = _cmd.err (the worker
\* stores the two in one statement, line 131)
Read495 ==
    /\ pc = "read495"
    /\ output' = c_out
    /\ error' = c_err
    /\ pc' = "read497"
    /\ UNCHANGED << grid, ck, group, config, state, retCode, idx, runs, runRet, exc,
                    executed, command, procs >>

\* the checks of stdout and stderr alone, without the return code
MatchesStreams(ret, out, err) ==
    /\ check(expectStdout, out)
    /\ check(expectStderr, err)

\* lines 498-502: the three checks
Matches(ret, out, err) ==
    /\ check(expectRetCode, ret)
    /\ check(expectStdout, out)
    /\ check(expectStderr, err)

\* lines 505-515: the state of a mismatch, by stderr and the return code
Classify(err, ret) ==
    IF Contains(err.v, "Assertion") \/ Contains(err.v, "assertion")
    THEN "Assertion"
    ELSE IF \/ Contains(err.v, "stackdump")
            \/ Contains(err.v, "coredump")
            \/ Contains(err.v, "Segmentation Fault")
            \/ ret.v < 0
         THEN "SegFault"
         ELSE "Fail"

\* lines 497-515 and the loop of Test.run: self.retCode = _cmd.ret, the
\* checks, and the state.  `"Assertion" in self.error` is a TypeError for
\* a bytes value
Decide ==
    /\ pc = "read497"
    /\ retCode' = c_ret
    /\ IF Matches(c_ret, output, error)
       THEN /\ state' = "Success"
            /\ Continue("Success")
            /\ UNCHANGED << exc, runs, executed >>
       ELSE IF error.t = "bytes"
            THEN /\ Raise("TypeError")
                 /\ UNCHANGED state
            ELSE /\ state' = Classify(error, c_ret)
                 /\ Continue(state')
                 /\ UNCHANGED << exc, runs, executed >>
    /\ UNCHANGED << grid, ck, group, config, output, error, command, procs >>

Next ==
    \/ clickCheck
    \/ SetInfoOnly
    \/ RunDisabled
    \/ RunInfoOnly
    \/ RunBadword
    \/ RunNoCmd
    \/ RunStart
    \/ RunCmdNoDUT
    \/ RunCmdExecute
    \/ Popen
    \/ StoreProc
    \/ PopenFails
    \/ Communicate
    \/ Wait
    \/ ShellExits
    \/ ChildExits
    \/ DescendantExits
    \/ Join
    \/ JoinTimeout
    \/ Poll145
    \/ Pgrep
    \/ Kill
    \/ Poll153
    \/ Term
    \/ Read495
    \/ Decide

Spec == Init /\ [][Next]_vars

(***************************************************************************)
(* Test.__init__ as a step of its own, called with the argument state.     *)
(***************************************************************************)
\* before the constructor has run: its arguments are chosen, the object has
\* no attribute yet
ArgInit ==
    /\ \E c \in { << "echo", PyStr("echo hello"), None >>,
                   << "echo", PyStr("$DUT -x"), None >>,
                   << "echo", None, None >>,
                   << "Badword", PyStr("echo hello"), None >> } :
          /\ name = c[1] /\ cmd = c[2] /\ DUT = c[3]
    /\ binary = FALSE
    /\ \E e \in Expectations :
          /\ expectRetCode = e[1]
          /\ expectStdout = e[2]
          /\ expectStderr = e[3]
    /\ arg_state \in {"Waiting", "Disabled", "InfoOnly"}
    /\ state = "none" /\ output = None /\ error = None /\ retCode = None
    /\ pc = "new" /\ idx = 0 /\ runs = 0 /\ runRet = "none" /\ exc = "none"
    /\ executed = 0
    /\ c_out = PyStr("") /\ c_err = PyStr("") /\ c_ret = PyInt(0)
    /\ c_binary = FALSE /\ proc = "None" /\ cmdRet = "none" /\ wpc = "none"
    /\ shell = "none" /\ kids = 0 /\ desc = 0 /\ returncode = None
    /\ timedOut = FALSE
    /\ NoGroup
    /\ NoOuter
    /\ NoCheck
    /\ Flags
    /\ NoGrid

\* lines 349-355 of Test.__init__: output, error, retCode, and
\* self.state = TestState.Waiting, whatever the argument state is
Construct ==
    /\ pc = "new"
    /\ output' = PyStr("")
    /\ error' = PyStr("")
    /\ retCode' = PyInt(0)
    /\ state' = "Waiting"
    /\ pc' = "idle"
    /\ UNCHANGED << grid, ck, group, config, idx, runs, runRet, exc, executed,
                    command, procs >>

ArgNext == Construct \/ Next

ArgSpec == ArgInit /\ [][ArgNext]_vars

(***************************************************************************)
(* The same Test under a fair scheduler: the worker thread takes its next  *)
(* step whenever it has one.  Nothing makes a process of the command end:  *)
(* a command may hang for ever.                                            *)
(***************************************************************************)
\* the steps of the worker thread (lines 123-132)
WorkerStep == Popen \/ StoreProc \/ PopenFails \/ Communicate \/ Wait

LiveSpec == Init /\ [][Next]_vars /\ WF_vars(WorkerStep)

(***************************************************************************)
(* A Test whose expectation never matches by its shape: a return code      *)
(* expectation of a type check has no rule for, or an int expectation for  *)
(* stdout, whose output is a str or a bytes value.                         *)
(***************************************************************************)
ShapeExpectations ==
    { << PyFloat("0.0"), None, None >>,
      << None, PyInt(0), None >> }

ShapeInit ==
    /\ name \in {"echo", "Badword"}
    /\ cmd \in CmdValues
    /\ DUT \in {None, PyStr("./dut")}
    /\ binary \in BOOLEAN
    /\ \E e \in ShapeExpectations :
          /\ expectRetCode = e[1]
          /\ expectStdout = e[2]
          /\ expectStderr = e[3]
    /\ Constructed
    /\ NoGroup
    /\ NoOuter
    /\ NoCheck
    /\ Flags
    /\ NoGrid

ShapeSpec == ShapeInit /\ [][Next]_vars

(***************************************************************************)
(* TestGroup.  The children of the group are one Test, g_n times in        *)
(* TestGroup.tests (TestGroup(t, ..., t)); MaxRuns bounds the calls of     *)
(* t.run() of all runs of the group together.                              *)
(***************************************************************************)
\* the builtin all, over a sequence of booleans
RECURSIVE all(_)
all(q) == IF q = << >> THEN TRUE
          ELSE IF ~Head(q) THEN FALSE ELSE all(Tail(q))

\* an any that holds of the empty sequence, as all does
anyVacuous(q) == q = << >> \/ \E i \in 1..Len(q) : q[i]

\* the builtin any
RECURSIVE any(_)
any(q) == IF q = << >> THEN FALSE
          ELSE IF Head(q) THEN TRUE ELSE any(Tail(q))

\* a group that applies all whatever its predicate is
predicateAll(results) ==
    all([i \in 1..Len(results) |-> results[i] = "Success"])

\* self.predicate(result == TestState.Success for result in results)
predicate(results) ==
    LET bools == [i \in 1..Len(results) |-> results[i] = "Success"]
    IN IF g_pred = "all" THEN all(bools) ELSE any(bools)

\* the command values of the Tests that are put into a group
GroupCmdValues == {None} \cup {PyStr(c) : c \in CmdLines}

\* TestGroup.__init__ over a Test as its constructor leaves it
GroupInit ==
    /\ name \in {"echo", "Badword"}
    /\ cmd \in GroupCmdValues
    /\ DUT \in {None, PyStr("./dut")}
    /\ binary \in BOOLEAN
    /\ \E e \in Expectations :
          /\ expectRetCode = e[1]
          /\ expectStdout = e[2]
          /\ expectStderr = e[3]
    /\ Constructed
    /\ g_pc = "idle"
    /\ g_n \in 0..MaxTests
    /\ g_pred \in {"all", "any"}
    /\ g_cls = "TestGroup"
    /\ g_i = 0
    /\ g_results = << >> /\ g_log = << >>
    /\ g_state = "Waiting"
    /\ g_ret = "none"
    /\ NoOuter
    /\ NoCheck
    /\ Flags
    /\ NoGrid

\* a run of the group that keeps the results of the run before
GroupRunKeeping ==
    /\ g_pc = "idle"
    /\ pc = "idle"
    /\ runs + g_n <= MaxRuns
    /\ IF o_pc = "noouter"
       THEN UNCHANGED outer
       ELSE /\ o_pc = "call"
            /\ o_nodes[o_i] = "G"
            /\ o_pc' = "run"
            /\ UNCHANGED << o_nodes, o_pred, o_i, o_results, o_log, o_state,
                            o_ret, o_trace >>
    /\ g_log' = << >>
    /\ g_i' = IF g_n = 0 THEN 0 ELSE 1
    /\ g_pc' = IF g_n = 0 THEN "finish" ELSE "call"
    /\ UNCHANGED << grid, ck, config, fields, caller, command, procs,
                    g_n, g_pred, g_results, g_state, g_ret >>

\* lines 690-691: results = [] and the start of the loop
GroupRun ==
    /\ g_pc = "idle"
    /\ pc = "idle"
    /\ runs + g_n <= MaxRuns
    /\ IF o_pc = "noouter"
       THEN UNCHANGED outer
       ELSE /\ o_pc = "call"
            /\ o_nodes[o_i] = "G"
            /\ o_pc' = "run"
            /\ UNCHANGED << o_nodes, o_pred, o_i, o_results, o_log, o_state,
                            o_ret, o_trace >>
    /\ g_results' = << >>
    /\ g_log' = << >>
    /\ g_i' = IF g_n = 0 THEN 0 ELSE 1
    /\ g_pc' = IF g_n = 0 THEN "finish" ELSE "call"
    /\ UNCHANGED << grid, ck, config, fields, caller, command, procs,
                    g_n, g_pred, g_state, g_ret >>

\* a loop that appends the result and writes no log line
ChildReturnedSilent ==
    /\ g_pc = "run"
    /\ pc = "idle"
    /\ g_results' = Append(g_results, runRet)
    /\ IF g_i < g_n
       THEN g_i' = g_i + 1 /\ g_pc' = "call"
       ELSE g_i' = 0 /\ g_pc' = "finish"
    /\ UNCHANGED << grid, ck, config, fields, caller, command, procs, outer,
                    g_n, g_pred, g_log, g_state, g_ret >>

\* lines 692-693, after t.run() has returned: results.append(...) and
\* self.log_test(t, nr), which writes t.state; then the next child
ChildReturned ==
    /\ g_pc = "run"
    /\ pc = "idle"
    /\ g_results' = Append(g_results, runRet)
    /\ g_log' = Append(g_log, << g_i - 1, state >>)
    /\ IF g_i < g_n
       THEN g_i' = g_i + 1 /\ g_pc' = "call"
       ELSE g_i' = 0 /\ g_pc' = "finish"
    /\ UNCHANGED << grid, ck, config, fields, caller, command, procs, outer,
                    g_n, g_pred, g_state, g_ret >>

\* lines 694-695: the state of the group, and its return
GroupFinish ==
    /\ g_pc = "finish"
    /\ g_state' = IF predicate(g_results) THEN "Success" ELSE "Fail"
    /\ g_ret' = g_state'
    /\ g_pc' = "idle"
    /\ UNCHANGED << grid, ck, config, fields, caller, command, procs, outer,
                    g_n, g_pred, g_i, g_results, g_log >>

GroupNext ==
    \/ GroupRun
    \/ ChildReturned
    \/ GroupFinish
    \/ Next

GroupSpec == GroupInit /\ [][GroupNext]_vars

(***************************************************************************)
(* The constructors of TestGroup, TestAll and TestAny as steps of their    *)
(* own: g_cls(t, ..., t) with g_n tests, and for TestGroup the argument    *)
(* predicate in g_pred.  A constructor that raises leaves no object:       *)
(* g_pc names the exception.                                               *)
(***************************************************************************)
CtorInit ==
    /\ name \in {"echo", "Badword"}
    /\ cmd \in GroupCmdValues
    /\ DUT \in {None, PyStr("./dut")}
    /\ binary \in BOOLEAN
    /\ \E e \in Expectations :
          /\ expectRetCode = e[1]
          /\ expectStdout = e[2]
          /\ expectStderr = e[3]
    /\ Constructed
    /\ g_pc = "new"
    /\ g_n \in 0..MaxTests
    /\ \/ g_cls = "TestGroup" /\ g_pred \in {"all", "any"}
       \/ g_cls \in {"TestAll", "TestAny"} /\ g_pred = "none"
    /\ g_i = 0
    /\ g_results = << >> /\ g_log = << >>
    /\ g_state = "none"
    /\ g_ret = "none"
    /\ NoOuter
    /\ NoCheck
    /\ Flags
    /\ NoGrid

\* TestGroup.__init__: the tests, the name, the state Waiting, the predicate
TestGroupInit ==
    /\ g_pc = "new"
    /\ g_cls = "TestGroup"
    /\ g_state' = "Waiting"
    /\ g_pc' = "idle"
    /\ UNCHANGED << grid, ck, config, fields, caller, command, procs, outer,
                    g_n, g_pred, g_i, g_results, g_log, g_ret >>

\* TestAll.__init__: super.__init__(self, ...) is the slot __init__ of the
\* builtin type super called on an object that is no super object, which
\* raises TypeError before any attribute is set
TestAllInit ==
    /\ g_pc = "new"
    /\ g_cls = "TestAll"
    /\ g_pc' = "TypeError"
    /\ UNCHANGED << grid, ck, config, fields, caller, command, procs, outer,
                    g_n, g_pred, g_i, g_results, g_log, g_state, g_ret >>

\* TestAny.__init__: the same call
TestAnyInit ==
    /\ g_pc = "new"
    /\ g_cls = "TestAny"
    /\ g_pc' = "TypeError"
    /\ UNCHANGED << grid, ck, config, fields, caller, command, procs, outer,
                    g_n, g_pred, g_i, g_results, g_log, g_state, g_ret >>

CtorNext ==
    \/ TestGroupInit
    \/ TestAllInit
    \/ TestAnyInit
    \/ GroupNext

CtorSpec == CtorInit /\ [][CtorNext]_vars

(***************************************************************************)
(* A TestGroup as a child of another TestGroup.  The outer group holds the *)
(* inner group ("G") and, any number of times, the Test ("T"), in the      *)
(* order o_nodes; its loop calls run() of the child, which is Test.run or  *)
(* TestGroup.run of the inner group, and log_test reads name, descr and    *)
(* state of the child, which both classes have (lines 664-672).            *)
(***************************************************************************)
\* self.predicate(result == TestState.Success for result in results) of
\* the outer group
outerPredicate(results) ==
    LET bools == [i \in 1..Len(results) |-> results[i] = "Success"]
    IN IF o_pred = "all" THEN all(bools) ELSE any(bools)

\* the calls of Test.run that one run of the outer group makes
RECURSIVE Leaves(_, _)
Leaves(nodes, n) ==
    IF nodes = << >> THEN 0
    ELSE (IF Head(nodes) = "T" THEN 1 ELSE n) + Leaves(Tail(nodes), n)

\* the children lists of the outer group: the inner group is one of them
NestNodes ==
    {q \in SeqsUpTo({"T", "G"}, MaxTests) :
        Cardinality({i \in 1..Len(q) : q[i] = "G"}) = 1}

\* <<name, command, DUT, binary>> of the Test in the groups
NestConfigs ==
    { << "echo", PyStr("echo hello"), None, FALSE >>,
      << "echo", PyStr("$DUT -x"), None, FALSE >>,
      << "echo", None, None, FALSE >>,
      << "Badword", PyStr("echo hello"), None, FALSE >> }

\* TestGroup.__init__ of the inner and of the outer group
NestInit ==
    /\ \E c \in NestConfigs :
          /\ name = c[1] /\ cmd = c[2] /\ DUT = c[3] /\ binary = c[4]
    /\ \E e \in Expectations :
          /\ expectRetCode = e[1]
          /\ expectStdout = e[2]
          /\ expectStderr = e[3]
    /\ Constructed
    /\ g_pc = "idle"
    /\ g_n \in 0..MaxTests
    /\ g_pred \in {"all", "any"}
    /\ g_cls = "TestGroup"
    /\ g_i = 0
    /\ g_results = << >> /\ g_log = << >>
    /\ g_state = "Waiting"
    /\ g_ret = "none"
    /\ o_pc = "idle"
    /\ o_nodes \in NestNodes
    /\ Leaves(o_nodes, g_n) <= MaxRuns
    /\ o_pred \in {"all", "any"}
    /\ o_i = 0
    /\ o_results = << >> /\ o_log = << >>
    /\ o_state = "Waiting"
    /\ o_ret = "none"
    /\ o_trace = << >>
    /\ NoCheck
    /\ Flags
    /\ NoGrid

\* lines 690-691 of the outer group: results = [] and the start of the loop
OuterRun ==
    /\ o_pc = "idle"
    /\ g_pc = "idle"
    /\ pc = "idle"
    /\ runs + Leaves(o_nodes, g_n) <= MaxRuns
    /\ o_results' = << >>
    /\ o_log' = << >>
    /\ o_trace' = << >>
    /\ o_i' = IF o_nodes = << >> THEN 0 ELSE 1
    /\ o_pc' = IF o_nodes = << >> THEN "finish" ELSE "call"
    /\ UNCHANGED << grid, ck, config, fields, caller, command, procs,
                    g_pc, g_n, g_pred, g_i, g_results, g_log, g_state, g_ret,
                    o_nodes, o_pred, o_state, o_ret >>

\* an outer loop that takes the result of the last Test.run for the result
\* of the inner group
OuterChildReturnedLast ==
    /\ o_pc = "run"
    /\ IF o_nodes[o_i] = "T" THEN pc = "idle" ELSE g_pc = "idle"
    /\ o_results' = Append(o_results, runRet)
    /\ o_log' = Append(o_log, << o_i - 1,
                                 IF o_nodes[o_i] = "T" THEN state ELSE g_state >>)
    /\ IF o_i < Len(o_nodes)
       THEN o_i' = o_i + 1 /\ o_pc' = "call"
       ELSE o_i' = 0 /\ o_pc' = "finish"
    /\ UNCHANGED << grid, ck, config, fields, caller, command, procs,
                    g_pc, g_n, g_pred, g_i, g_results, g_log, g_state, g_ret,
                    o_nodes, o_pred, o_state, o_ret, o_trace >>

\* lines 692-693 of the outer group, after t.run() has returned, which for
\* the inner group is the return of line 695: results.append(...) and
\* self.log_test(t, nr), which writes t.state; then the next child
OuterChildReturned ==
    /\ o_pc = "run"
    /\ IF o_nodes[o_i] = "T" THEN pc = "idle" ELSE g_pc = "idle"
    /\ o_results' = Append(o_results,
                           IF o_nodes[o_i] = "T" THEN runRet ELSE g_ret)
    /\ o_log' = Append(o_log, << o_i - 1,
                                 IF o_nodes[o_i] = "T" THEN state ELSE g_state >>)
    /\ IF o_i < Len(o_nodes)
       THEN o_i' = o_i + 1 /\ o_pc' = "call"
       ELSE o_i' = 0 /\ o_pc' = "finish"
    /\ UNCHANGED << grid, ck, config, fields, caller, command, procs,
                    g_pc, g_n, g_pred, g_i, g_results, g_log, g_state, g_ret,
                    o_nodes, o_pred, o_state, o_ret, o_trace >>

\* lines 694-695 of the outer group: its state, and its return
OuterFinish ==
    /\ o_pc = "finish"
    /\ o_state' = IF outerPredicate(o_results) THEN "Success" ELSE "Fail"
    /\ o_ret' = o_state'
    /\ o_pc' = "idle"
    /\ UNCHANGED << grid, ck, config, fields, caller, command, procs,
                    g_pc, g_n, g_pred, g_i, g_results, g_log, g_state, g_ret,
                    o_nodes, o_pred, o_i, o_results, o_log, o_trace >>

NestNext ==
    \/ OuterRun
    \/ OuterChildReturned
    \/ OuterFinish
    \/ GroupNext

NestSpec == NestInit /\ [][NestNext]_vars

(***************************************************************************)
(* Test.check called on its own: one call with an expectation and an       *)
(* output, under every iteration order of the sets.                        *)
(***************************************************************************)
\* the expectations without elements of their own
CkAtoms == {None, PyInt(0), PyStr("hello")}

\* sets of expectations (a Python set holds hashable elements only)
CkSets == {PySet(S) : S \in SUBSET CkAtoms}

\* what a list of expectations holds: atoms, sets and lists of atoms
CkElements ==
    CkAtoms \cup CkSets \cup {PyList(<< a, b >>) : a \in CkAtoms, b \in CkAtoms}

CkLists == {PyList(q) : q \in SeqsUpTo(CkElements, MaxLen)}

\* the outputs: return codes and stream contents
CkOutputs == {PyInt(0), PyInt(1), PyStr("hello\n"), PyStr("bye")}

\* the orders in which the elements of S can be visited
Orders(S) ==
    {q \in [1..Cardinality(S) -> S] :
        \A i \in 1..Cardinality(S), j \in 1..Cardinality(S) :
            q[i] = q[j] => i = j}

\* expectations of the other shapes, checked on their own
CkSingles ==
    {None, PyInt(0), PyFloat("1.5"), Expectation, PyBytes("hello\n"),
     Stringifier("hello"), Stringifier(" hello\n"),
     PyStr("hello"), PyStr("hello "), PyStr("hello\n\nworld"),
     PyStr("lambda x: False")}

\* their outputs: no output, return codes, bytes and texts
CkSingleOutputs ==
    {None, PyInt(0), PyInt(1), PyBytes("hello\n"),
     PyStr("hello\n"), PyStr("hello "), PyStr("hello\n\nworld"),
     PyStr("hello\nworld"), PyStr("lambda x: False"), PyStr("bye")}

\* the stream names Test.runCmd passes (lines 499-501)
CkStreams == {"returnCode", "stdout", "stderr"}

CheckInit ==
    /\ name = "echo"
    /\ cmd = None
    /\ DUT = None
    /\ binary = FALSE
    /\ expectRetCode = None /\ expectStdout = None /\ expectStderr = None
    /\ Constructed
    /\ NoGroup
    /\ NoOuter
    /\ NoGrid
    /\ \/ /\ ck_exp \in CkLists \cup CkSets
          /\ ck_out \in CkOutputs
          /\ ck_stream = "returnCode"
          /\ ck_order \in Orders(CkAtoms)
          /\ ignoreEmptyLines = FALSE
       \/ /\ ck_exp \in CkSingles
          /\ ck_out \in CkSingleOutputs
          \* Stringifier.__call__ strips the output: a str
          /\ ck_exp.t = "Stringifier" => ck_out.t = "str"
          /\ ck_stream \in CkStreams
          /\ ck_order = << >>
          /\ ignoreEmptyLines \in BOOLEAN
    /\ diff \in BOOLEAN
    /\ ck_res = "none"
    /\ ck_log = << >>

\* a call of Test.check whose removal of the empty lines reaches the
\* expectation
CallCheckInPlace ==
    /\ ck_res = "none"
    /\ ck_res' = IF check(ck_exp, ck_out) THEN "True" ELSE "False"
    /\ ck_log' = checkLog(ck_exp, ck_out, ck_stream)
    /\ ck_exp' = IF ignoreEmptyLines /\ ck_exp.t = "str"
                 THEN PyStr(Replace(ck_exp.v, "\n\n", "\n")) ELSE ck_exp
    /\ UNCHANGED << ck_out, ck_stream, ck_order, diff, ignoreEmptyLines >>
    /\ UNCHANGED << grid, config, fields, caller, command, procs, group >>

\* lines 400-442: one call of Test.check, what it returns and what it logs
CallCheck ==
    /\ ck_res = "none"
    /\ ck_res' = IF check(ck_exp, ck_out) THEN "True" ELSE "False"
    /\ ck_log' = checkLog(ck_exp, ck_out, ck_stream)
    /\ UNCHANGED << ck_exp, ck_out, ck_stream, ck_order, diff,
                    ignoreEmptyLines >>
    /\ UNCHANGED << grid, config, fields, caller, command, procs, group >>

CheckNext == CallCheck

CheckSpec == CheckInit /\ [][CheckNext]_vars

\* src/case.py, lines 270-299: one call of the Test.check of that copy; the
\* callable rule compares no lines and logs nothing
SrcCaseCallCheck ==
    /\ ck_res = "none"
    /\ ck_res' = IF checkSrcCase(ck_exp, ck_out) THEN "True" ELSE "False"
    /\ ck_log' = IF ck_exp.t = "Stringifier" THEN << >>
                 ELSE checkLog(ck_exp, ck_out, ck_stream)
    /\ UNCHANGED << ck_exp, ck_out, ck_stream, ck_order, diff,
                    ignoreEmptyLines >>
    /\ UNCHANGED << grid, config, fields, caller, command, procs, group >>

SrcCaseCheckNext == SrcCaseCallCheck

SrcCaseCheckSpec == CheckInit /\ [][SrcCaseCheckNext]_vars

C2_Original ==
    [][ ( /\ pc = "read497"
          /\ pc' # "read497"
          /\ ~timedOut
          /\ wpc = "done"
          /\ ~( /\ check(expectRetCode, c_ret)
                /\ check(expectStdout, output)
                /\ check(expectStderr, error) ) )
        => /\ pc' \in {"idle", "runCmd"}
           /\ state' =
                IF Contains(error.v, "Assertion") \/ Contains(error.v, "assertion")
                THEN "Assertion"
                ELSE IF \/ Contains(error.v, "stackdump")
                        \/ Contains(error.v, "coredump")
                        \/ Contains(error.v, "Segmentation Fault")
                        \/ c_ret.v < 0
                     THEN "SegFault"
                     ELSE "Fail" ]_vars

(***************************************************************************)
(* The timeout of Command.execute (C3 to C7)                               *)
(***************************************************************************)
\* C3: when the timeout elapses while the command has not exited, the
\* shell not yet spawned included, execute does not report Success.
C3_Original ==
    [][ ( /\ pc = "join"
          /\ timedOut'
          /\ shell \in {"none", "alive"} )
        => cmdRet' # "Success" ]_vars

\* C4: once execute has returned Timeout, no process of the command's
\* process tree is alive.
C4_Original == cmdRet = "Timeout" => ~Alive

\* C5: a shell or a child that ends by itself between the check of line
\* 145 and a kill raises no error: os.kill's ProcessLookupError for a
\* process that is gone never leaves execute.
C5_Original == exc # "ProcessLookupError"

\* C6: whenever execute has returned Success for a command whose shell has
\* ended, the worker has stored out, err and ret of the finished process.
C6_Original ==
    (cmdRet = "Success" /\ pc \in {"read495", "read497"} /\ shell = "exited")
        => wpc = "done"

\* C7: when the shell could not be spawned, runCmd ends with the state
\* Error.
C7_Original ==
    [][ (pc = "read497" /\ pc' # "read497" /\ wpc = "failed")
        => state' = "Error" ]_vars

(***************************************************************************)
(* Test.run (C8 to C10)                                                    *)
(***************************************************************************)
\* C8: a run of a Test that was neither Disabled nor InfoOnly returns one
\* of Success, Fail, Error, Assertion, SegFault and Timeout.
C8_Original ==
    (pc = "idle" /\ runRet \notin {"none", "Disabled", "InfoOnly"})
        => runRet \in {"Success", "Fail", "Error", "Assertion", "SegFault",
                       "Timeout"}

\* C9: runCmd with a command line that holds $DUT, of a Test without DUT,
\* sets the state Error, starts no command, and leaves output, error and
\* retCode as they were.
C9_NoDUTIsError ==
    [][ ( /\ pc = "runCmd"
          /\ Contains(CmdList[idx], "$DUT")
          /\ DUT = None
          /\ (pc' # pc \/ idx' # idx) )
        => /\ state' = "Error"
           /\ pc' \in {"idle", "runCmd"}
           /\ UNCHANGED << output, error, retCode, executed, command, procs >> ]_vars

\* the second command line of a list met $DUT without a DUT, after the
\* first had stored its output
C9_Witness ==
    /\ pc = "idle"
    /\ runs = 1
    /\ DUT = None
    /\ cmd = PyList(<< "echo hello", "$DUT -x" >>)
    /\ executed = 1
    /\ state = "Error"
    /\ runRet = "Error"
    /\ output = PyStr("hello\n")
    /\ retCode = PyInt(1)

\* C10: run() of a Disabled Test returns Disabled, executes nothing and
\* leaves state, output, error and retCode as they were, at every call.
C10_DisabledIsSkipped ==
    [][ (pc = "idle" /\ state = "Disabled" /\ runs' = runs + 1)
        => /\ runRet' = "Disabled"
           /\ pc' = "idle"
           /\ UNCHANGED << state, output, error, retCode, exc, executed,
                           command, procs >> ]_vars

\* a Test that ran its command and was disabled then has been run again
C10_Witness ==
    /\ pc = "idle"
    /\ runs = 2
    /\ state = "Disabled"
    /\ runRet = "Disabled"
    /\ executed = 1
    /\ output = PyStr("hello\n")
    /\ retCode = PyInt(1)

\* C11: run() of an InfoOnly Test returns InfoOnly, executes nothing and
\* leaves state, output, error and retCode as they were.
C11_InfoOnlyIsSkipped ==
    [][ (pc = "idle" /\ state = "InfoOnly" /\ runs' = runs + 1)
        => /\ runRet' = "InfoOnly"
           /\ pc' = "idle"
           /\ UNCHANGED << state, output, error, retCode, exc, executed,
                           command, procs >> ]_vars

\* a Test that ran its command with a crash on stderr and was marked
\* InfoOnly then has been run again
C11_Witness ==
    /\ pc = "idle"
    /\ runs = 2
    /\ state = "InfoOnly"
    /\ runRet = "InfoOnly"
    /\ executed = 1
    /\ error = PyStr("coredump")
    /\ retCode = PyInt(0)

(***************************************************************************)
(* Command lists and repeated runs (C12, C18)                              *)
(***************************************************************************)
\* C12: the first run of a Test whose command is a list, with a DUT, has
\* executed every command line of the list when it ends, whatever the
\* earlier command lines came to.
C12_Original ==
    ( /\ runs = 1
      /\ name # "Badword"
      /\ cmd.t = "list"
      /\ DUT # None
      /\ \/ pc = "raised"
         \/ pc = "idle" /\ runRet \notin {"none", "Disabled", "InfoOnly"} )
    => executed = Len(cmd.v)

\* C18: after a second run of a Test with one command line that ended in
\* Timeout or Error, output, error and retCode hold nothing of the first
\* run.
C18_Original ==
    ( /\ runs = 2
      /\ pc = "idle"
      /\ cmd.t = "str"
      /\ runRet \in {"Timeout", "Error"} )
    => /\ output = PyStr("") \/ output = PyBytes("")
       /\ error = PyStr("") \/ error = PyBytes("")
       /\ retCode = PyInt(0)

(***************************************************************************)
(* TestGroup (C13 to C17), under GroupSpec                                 *)
(***************************************************************************)
\* C13: TestGroup.run() returns and leaves Success or Fail and nothing
\* else: with the predicate all, Success exactly when every child
\* returned Success, with any, exactly when at least one did.
C13_GroupStateIsPredicate ==
    [][ (g_pc = "finish" /\ g_pc' = "idle")
        => /\ g_state' \in {"Success", "Fail"}
           /\ g_ret' = g_state'
           /\ Len(g_results) = g_n
           /\ g_pred = "all" =>
                 ( g_state' = "Success"
                   <=> \A i \in 1..g_n : g_results[i] = "Success" )
           /\ g_pred = "any" =>
                 ( g_state' = "Success"
                   <=> \E i \in 1..g_n : g_results[i] = "Success" ) ]_vars

\* a group with the predicate any has run a child to Success and one to
\* Fail, and is Success
C13_Witness ==
    /\ g_pc = "idle"
    /\ g_pred = "any"
    /\ g_results = << "Success", "Fail" >>
    /\ g_state = "Success"
    /\ g_ret = "Success"

\* C14: no exception of a child that runs a command leaves
\* TestGroup.run(): the run of the child always returns to the loop.
C14_Original == (g_pc = "run" /\ name # "Badword") => pc # "raised"

\* C15: the children are run in the order of TestGroup.tests, and line nr
\* of the log, holding the state child nr returned with, is written after
\* the run of child nr and before the run of child nr + 1.
C15_OrderedRunAndLog ==
    /\ Len(g_log) = Len(g_results)
    /\ \A k \in 1..Len(g_log) : g_log[k] = << k - 1, g_results[k] >>
    /\ g_pc \in {"call", "run"} => (g_i \in 1..g_n /\ Len(g_log) = g_i - 1)
    /\ g_pc = "finish" => Len(g_log) = g_n

\* the second child runs its command; the log holds the line of the first
\* child, which timed out, and no other
C15_Witness ==
    /\ g_pc = "run"
    /\ g_i = 2
    /\ pc = "join"
    /\ g_log = << << 0, "Timeout" >> >>

\* C16: when the command of a later child of the group is started, no
\* process of the command of the child before it, which ended in Timeout,
\* is alive.
C16_Original ==
    [][ ( /\ g_pc = "run" /\ g_i >= 2
          /\ cmdRet = "Timeout"
          /\ pc = "runCmd" /\ pc' = "join" )
        => ~Alive ]_vars

\* C17: TestGroup.state is Waiting until the first run() has returned, it
\* changes at the end of TestGroup.run() only, and is then what the
\* predicate gives for the results of the children in that run, one for
\* each child, the last of them the latest return of Test.run().
C17_GroupStateRecomputed ==
    /\ [](g_ret = "none" => g_state = "Waiting")
    /\ [][ /\ g_state' # g_state => (g_pc = "finish" /\ g_pc' = "idle")
           /\ (g_pc = "finish" /\ g_pc' = "idle")
              => /\ Len(g_results) = g_n
                 /\ g_n > 0 => g_results[g_n] = runRet
                 /\ g_state' = IF predicate(g_results) THEN "Success"
                                ELSE "Fail" ]_vars

\* a group of one child has run twice: the output, error and return code
\* are those of the first run, which matched (Success), the second run
\* timed out, and the group is Fail
C17_Witness ==
    /\ g_pc = "idle"
    /\ g_n = 1
    /\ runs = 2
    /\ executed = 2
    /\ state = "Timeout"
    /\ output = PyStr("hello\n") /\ error = PyStr("") /\ retCode = PyInt(0)
    /\ g_results = << "Timeout" >>
    /\ g_state = "Fail"
    /\ g_ret = "Fail"
(***************************************************************************)
(* The laws of Test.check for lists and sets (C19, C20)                    *)
(***************************************************************************)
\* C19: for a non-empty list of expectations and any output, check(list,
\* out) is true if and only if check(e, out) is true for every element e
\* of the list, nested lists and sets included.
C19_ConjunctionLaw ==
    (ck_res # "none" /\ ck_exp.t = "list" /\ ck_exp.v # << >>)
        => ( ck_res = "True"
               <=> \A i \in 1..Len(ck_exp.v) : check(ck_exp.v[i], ck_out) )

\* a list whose first element (a set) matches and whose second (a nested
\* list) does not: the call has returned False
C19_Witness ==
    /\ ck_exp = PyList(<< PySet({PyInt(0), PyStr("hello")}),
                          PyList(<< None, PyInt(0) >>) >>)
    /\ ck_out = PyStr("hello\n")
    /\ ck_res = "False"

\* C20: for a non-empty set of expectations and any output, check(set,
\* out) is true if and only if check(e, out) is true for at least one
\* element e of the set, and every iteration order of the set gives this
\* result.
C20_DisjunctionLaw ==
    (ck_res # "none" /\ ck_exp.t = "set" /\ ck_exp.v # {})
        => /\ ck_res = "True" <=> \E e \in ck_exp.v : check(e, ck_out)
           /\ \A q \in Orders(ck_exp.v) :
                 loopSet(q, ck_out) <=> ck_res = "True"

\* a set whose element visited first does not match and whose element
\* visited last does: the call has returned True
C20_Witness ==
    /\ ck_exp = PySet({PyInt(0), PyStr("hello")})
    /\ ck_out = PyStr("hello\n")
    /\ ck_order = << PyInt(0), None, PyStr("hello") >>
    /\ ck_res = "True"

(***************************************************************************)
(* The capture mode of a command (C30)                                     *)
(***************************************************************************)
\* C30: a Test with binary set captures bytes for every command it runs,
\* with or without $DUT in the command line, and a Test without binary
\* captures str: what runCmd reads from a finished command has the type
\* the Test's flag asks for.
C30_Original ==
    [][ (pc = "read495" /\ pc' = "read497" /\ wpc = "done")
        => output'.t = (IF binary THEN "bytes" ELSE "str") ]_vars

(***************************************************************************)
(* Diffs, dispatch and purity of Test.check (C21 to C25, C27)              *)
(***************************************************************************)
\* C21: with diff set, the check of a list evaluates every element, also
\* after one has failed: every str element of the list that does not match
\* has its diff logged.
C21_Original ==
    (ck_res # "none" /\ diff /\ ck_exp.t = "list")
        => Len(ck_log) >= Cardinality({i \in 1..Len(ck_exp.v) :
                                /\ ck_exp.v[i].t = "str"
                                /\ ~check(ck_exp.v[i], ck_out)})

\* C22: the check of a set that matches logs no diff, whatever the diff
\* flag and the order in which the alternatives are evaluated.
C22_Original ==
    (ck_res = "True" /\ ck_exp.t = "set") => ck_log = << >>

\* C23: the check of a Stringifier returns the outcome of the line
\* comparison of the stripped expectation and the stripped output, in
\* every copy of Test.check.
C23_Original ==
    (ck_res # "none" /\ ck_exp.t = "Stringifier")
        => ( ck_res = "True"
               <=> DropEmpty(SplitLines(Strip(ck_exp.v)))
                     = DropEmpty(SplitLines(Strip(ck_out.v))) )

\* C24: a str expectation without the prefix "regex:" and without $n,
\* checked against the same str as output, matches.
C24_Original ==
    ( /\ ck_res # "none"
      /\ ck_exp.t = "str"
      /\ ~StartsWith(ck_exp.v, "regex:")
      /\ ~Contains(ck_exp.v, "$n")
      /\ ck_out = ck_exp )
        => ck_res = "True"

\* C25: check(None, out) returns True for every output (None, int, bytes,
\* str) and every stream name, and compares no lines.
C25_NoneAlwaysMatches ==
    (ck_res # "none" /\ ck_exp = None) => (ck_res = "True" /\ ck_log = << >>)

\* the expectation None checked against bytes as the stream stderr
C25_Witness ==
    /\ ck_exp = None
    /\ ck_out = PyBytes("hello\n")
    /\ ck_stream = "stderr"
    /\ ck_res = "True"

C26_Original ==
    [][ ( /\ pc = "read497"
          /\ pc' # "read497"
          /\ ~timedOut
          /\ wpc = "done"
          /\ (expectRetCode.t = "float" \/ expectStdout.t = "int") )
        => /\ ~check(expectRetCode, c_ret)
              \/ ~check(expectStdout, output)
           /\ pc' # "raised"
           /\ state' \in {"Fail", "Assertion", "SegFault"} ]_vars

(***************************************************************************)
(* The end of Command.execute (C28)                                        *)
(***************************************************************************)
\* C28: whatever the command does, execute ends after the wait of at most
\* the timeout by returning Success or Timeout: every step that leaves
\* lines 144-156 is one of the two returns.
C28_Original ==
    [][ ( /\ pc \in {"join", "poll145", "pgrep", "kill", "poll153", "term"}
          /\ pc' \notin {"join", "poll145", "pgrep", "kill", "poll153", "term"} )
        => /\ pc' # "raised"
           /\ cmdRet' \in {"Success", "Timeout"} ]_vars

(***************************************************************************)
(* A group inside a group (C29)                                            *)
(***************************************************************************)
\* the calls of Test.run of a depth-first walk over the children from
\* position i on, each with its positions in the outer and the inner group
RECURSIVE DepthFirst(_)
DepthFirst(i) ==
    IF i > Len(o_nodes) THEN << >>
    ELSE (IF o_nodes[i] = "T" THEN << << i, 0 >> >>
          ELSE [k \in 1..g_n |-> << i, k >>]) \o DepthFirst(i + 1)

\* C29: the run of the outer group runs the children of the inner group in
\* their order at the position of the inner group: the calls of Test.run
\* are at any time a prefix of the depth-first walk, and the whole walk
\* when the outer loop has ended.  When the inner group returns, it has
\* run all its children, its state is its predicate over their results,
\* and the outer group takes it as passed if and only if that state is
\* Success, and logs that state.
C29_NestedGroupIsOneNode ==
    /\ [](/\ Len(o_trace) <= Len(DepthFirst(1))
          /\ o_trace = SubSeq(DepthFirst(1), 1, Len(o_trace))
          /\ o_pc = "finish" => o_trace = DepthFirst(1))
    /\ [][ (o_pc = "run" /\ o_pc' # "run" /\ o_nodes[o_i] = "G")
           => /\ Len(g_results) = g_n
              /\ g_state = IF predicate(g_results) THEN "Success" ELSE "Fail"
              /\ Len(o_results') = o_i
              /\ o_results'[o_i] = "Success" <=> g_state = "Success"
              /\ o_log'[o_i] = << o_i - 1, g_state >> ]_vars

\* the Test and then a group of one Test have run; the Test succeeded on
\* its own and timed out in the group, which failed by it
C29_Witness ==
    /\ o_pc = "idle"
    /\ o_nodes = << "T", "G" >>
    /\ g_n = 1
    /\ o_trace = << << 1, 0 >>, << 2, 1 >> >>
    /\ g_results = << "Timeout" >>
    /\ o_results = << "Success", "Fail" >>
    /\ o_ret = "Fail"

(***************************************************************************)
(* What a command that does not complete leaves (C31)                      *)
(***************************************************************************)
\* C31: from the entry of runCmd to the return of execute, no step changes
\* output, error and retCode, so a command that ends in Timeout, or in
\* Error for a missing DUT, leaves in them what was there before it; the
\* step of runCmd that ends it sets the state Timeout, or Error.
C31_OnlyStateChanges ==
    [][ (pc \in {"runCmd", "join", "poll145", "pgrep", "kill", "poll153", "term"})
        => /\ UNCHANGED << output, error, retCode >>
           /\ ((cmdRet # "Timeout" /\ cmdRet' = "Timeout") => state' = "Timeout")
           /\ ( ( /\ pc = "runCmd"
                   /\ Contains(CmdList[idx], "$DUT")
                   /\ DUT = None
                   /\ (pc' # pc \/ idx' # idx) )
                  => state' = "Error" ) ]_vars

\* the second command of a list has timed out, and the Test still holds
\* what the first command wrote and returned
C31_Witness ==
    /\ pc = "idle"
    /\ runs = 1
    /\ executed = 2
    /\ runRet = "Timeout"
    /\ state = "Timeout"
    /\ output = PyStr("hello\n")
    /\ error = PyStr("coredump")
    /\ retCode = PyInt(0)

(***************************************************************************)
(* The worker thread after a Timeout (C32)                                 *)
(***************************************************************************)
\* C32: once execute has returned Timeout, the worker thread ends: its
\* communicate() and wait() return, also when a process of the command
\* that was not killed holds the pipes.
C32_Original == (cmdRet = "Timeout") ~> (wpc \in {"done", "failed"})

(***************************************************************************)
(* TestGrid (pyTestGui/testGrid.py).  A handler that raises ends there;     *)
(* Tk reports the exception and goes on with the next event.               *)
(***************************************************************************)
\* self._rows[i] of a list of rows elements exists
Indexable(i) == -rows <= i /\ i < rows

\* the position in the list that self._rows[i] names
Position(i) == IF i < 0 THEN rows + i ELSE i

\* TestGrid.scroll with self._visible = v.  Line 169 (pack_forget) raises
\* TclError on a destroyed row; line 171 indexes the rows lower..upper in
\* turn and raises IndexError at the first index that names no row.
scroll(v) ==
    LET lower == v[1]
        upper == IF v[2] > rows THEN rows - 1 ELSE v[2]
        bad   == {i \in lower..upper : ~Indexable(i)}
        first == CHOOSE b \in bad : \A c \in bad : b <= c
    IN IF rows > 0 /\ destroyed > 0
       THEN /\ gridExc' = "TclError"
            /\ indexed' = {}
            /\ UNCHANGED packed
       ELSE IF bad = {}
       THEN /\ indexed' = lower..upper
            /\ packed' = {Position(i) : i \in lower..upper}
            /\ gridExc' = "none"
       ELSE /\ indexed' = lower..first
            /\ packed' = {Position(i) : i \in lower..(first - 1)}
            /\ gridExc' = "IndexError"

\* TestGrid.scrollUp
scrollUp ==
    /\ IF visible[2] < rows - 1
       THEN /\ visible' = << visible[1] + 1, visible[2] + 1 >>
            /\ scroll(visible')
       ELSE /\ gridExc' = "none"
            /\ UNCHANGED << visible, packed, indexed >>
    /\ UNCHANGED << rows, destroyed >>
    /\ UNCHANGED << config, fields, caller, command, procs, group, ck >>

\* TestGrid.scrollDown
scrollDown ==
    /\ IF visible[1] > 0
       THEN /\ visible' = << visible[1] - 1, visible[2] - 1 >>
            /\ scroll(visible')
       ELSE /\ gridExc' = "none"
            /\ UNCHANGED << visible, packed, indexed >>
    /\ UNCHANGED << rows, destroyed >>
    /\ UNCHANGED << config, fields, caller, command, procs, group, ck >>

\* TestGrid.scroll called on the grid as it is, as the window that holds
\* the grid does to display the rows (addRow packs none)
callScroll ==
    /\ scroll(visible)
    /\ UNCHANGED << rows, destroyed, visible >>
    /\ UNCHANGED << config, fields, caller, command, procs, group, ck >>

\* TestGrid.addRow: a new row at the end; TestRow.__init__ does not pack it
addRow ==
    /\ rows < MaxRows
    /\ rows' = rows + 1
    /\ gridExc' = "none"
    /\ UNCHANGED << destroyed, visible, packed, indexed >>
    /\ UNCHANGED << config, fields, caller, command, procs, group, ck >>

\* TestGrid.update over a suite of n tests: the rows there are are updated
\* (TestRow.update configures the labels, TclError on a destroyed row), and
\* rows are added for the tests that have none
update ==
    \E n \in 0..MaxRows :
        /\ IF n > 0 /\ destroyed > 0
           THEN gridExc' = "TclError" /\ UNCHANGED rows
           ELSE /\ rows' = IF n > rows THEN n ELSE rows
                /\ gridExc' = "none"
        /\ UNCHANGED << destroyed, visible, packed, indexed >>
        /\ UNCHANGED << config, fields, caller, command, procs, group, ck >>

\* TestGrid.clear: every row is unpacked and destroyed, and stays in
\* self._rows; pack_forget raises TclError on a row destroyed before
clear ==
    /\ IF destroyed > 0
       THEN gridExc' = "TclError" /\ UNCHANGED << packed, destroyed >>
       ELSE packed' = {} /\ destroyed' = rows /\ gridExc' = "none"
    /\ UNCHANGED << rows, visible, indexed >>
    /\ UNCHANGED << config, fields, caller, command, procs, group, ck >>

\* a TestGrid over a Test as its constructor leaves it
GridInit ==
    /\ name = "echo"
    /\ cmd = PyStr("echo hello")
    /\ DUT = None
    /\ binary = FALSE
    /\ \E e \in Expectations :
          /\ expectRetCode = e[1]
          /\ expectStdout = e[2]
          /\ expectStderr = e[3]
    /\ Constructed
    /\ NoGroup
    /\ NoOuter
    /\ NoCheck
    /\ Flags
    /\ NoGrid

GridNext ==
    \/ addRow
    \/ update
    \/ clear
    \/ scrollUp
    \/ scrollDown
    \/ callScroll

GridSpec == GridInit /\ [][GridNext]_vars

(***************************************************************************)
(* The argument state of the constructor (C33)                             *)
(***************************************************************************)
\* C33: a Test constructed with state=Disabled, or state=InfoOnly, starts in
\* that state (so that its first run() is skipped): the constructor leaves
\* the state it was given.
C33_Original ==
    [][ (pc = "new" /\ pc' = "idle") => state' = arg_state ]_vars

(***************************************************************************)
(* The empty TestGroup (C34)                                               *)
(***************************************************************************)
\* C34: a TestGroup without children that is run ends in Success with the
\* predicate all and in Fail with the predicate any, and returns that state;
\* no run of such a group calls a Test or executes a command.
C34_EmptyGroup ==
    /\ [](g_n = 0 => (executed = 0 /\ runs = 0 /\ g_results = << >>
                      /\ g_log = << >> /\ pc = "idle"))
    /\ [][ (g_n = 0 /\ g_pc = "finish" /\ g_pc' = "idle")
            => /\ g_pred = "all" => (g_state' = "Success" /\ g_ret' = "Success")
               /\ g_pred = "any" => (g_state' = "Fail" /\ g_ret' = "Fail") ]_vars

C34_Witness ==
    /\ g_n = 0 /\ g_pred = "any" /\ g_pc = "idle"
    /\ g_state = "Fail" /\ g_ret = "Fail"
    /\ executed = 0 /\ runs = 0

(***************************************************************************)
(* The constructors of TestAll and TestAny (C35)                           *)
(***************************************************************************)
\* C35: constructing TestAll(*tests) yields a group with the predicate all
\* and constructing TestAny(*tests) one with the predicate any, holding the
\* given tests with the state Waiting; construction does not fail.
C35_Original ==
    [][ (g_pc = "new" /\ g_pc' # "new")
        => /\ g_pc' = "idle"
           /\ g_state' = "Waiting"
           /\ g_n' = g_n
           /\ (g_cls = "TestAll" => g_pred' = "all")
           /\ (g_cls = "TestAny" => g_pred' = "any") ]_vars

====
